---------------------------- MODULE Spec2Model ----------------------------
(***************************************************************************)
(* A model of the C program of population-stratification-pca:              *)
(*   - the variant scorer          (program_c/src/variant_calling.c),      *)
(*   - the sparse matrix products  (pca.c),                                *)
(*   - the streaming pipeline      (analysis.c: gather_variants_sparse and *)
(*     perform_full_analysis).                                             *)
(*                                                                         *)
(* Numbers.  The scoring parameters are decimal fractions; they are kept   *)
(* as integers in fixed units: transition_weight, transversion_weight and  *)
(* cluster_factor in hundredths, cpg_multiplier and logistic_scale in      *)
(* tenths.  The argument of the logistic transform, logistic_scale *       *)
(* score, is then an integer number of millionths.                         *)
(*                                                                         *)
(* A stored score is the double 1.0 / (1.0 + exp(-x)).  It is represented  *)
(* by x itself (the logistic is strictly increasing), except where the     *)
(* double arithmetic collapses it: for exp(-x) <= 2^-53 the sum            *)
(* 1.0 + exp(-x) rounds to 1.0 and the score is the double 1.0 (ScoreOne); *)
(* for x below -1024 ln 2 exp overflows and the score is 0.0 (ScoreZero).  *)
(***************************************************************************)
EXTENDS Integers, Sequences, FiniteSets, TLC

(* ------------------------------ bounds -------------------------------- *)

\* longest chunk handed to call_variants_chunk with nucleotide content
MaxChunkLen == 3
\* longest chunk handed to call_variants_chunk with arbitrary bytes
MaxRawLen == 1
\* the largest global offset a scorer call is given
MaxOffset == 2
\* number of individual files
MaxInds == 2
\* longest reference file, in bytes
MaxRefLen == 4
\* bytes per chunk read (1000000 in perform_full_analysis, scaled down)
chunk_size == 2
\* dimension d of the matrices the two products and the PCA are tried on
MulDim == 2
\* power iterations per component in the runs of partial_pca_sparse
\* (MAX_ITERS in the program, scaled down)
PowerIters == 2
\* the largest top_k partial_pca_sparse is tried with
MaxComps == 2
\* the most entries a matrix partial_pca_sparse is run on holds
MaxEntries == 2
\* the largest n_inds z_score_pca_scores is tried with
MaxZInds == 3

(* ------------------------- program constants -------------------------- *)

\* int top_k = 4 in perform_full_analysis
top_k == 4
\* const int MAX_ITERS = 20 in partial_pca_sparse
MAX_ITERS == 20
\* first capacity of a sparse set in add_variant
InitialCapacity == 1024
\* const size_t radius = 2 in _count_context_variants
radius == 2
\* significand bits of the double the scores are computed in
DBL_MANT_DIG == 53
\* largest binary exponent of a double
DBL_MAX_EXP == 1024

(* ------------------------------- bytes -------------------------------- *)

Bases == {"A", "C", "G", "T"}
\* what a file may hold besides the four bases: N, a lower-case base,
\* a newline and the NUL byte of a calloc'ed buffer
NUL == "NUL"
Bytes == Bases \cup {"N", "a", "\n", NUL}

(* ------------------------- scoring parameters ------------------------- *)

\* VariantParams params = {0.28, 1.1, 1.8, 0.12, 0.6}
DefaultParams ==
  [transition_weight |-> 28, transversion_weight |-> 110,
   cpg_multiplier |-> 18, cluster_factor |-> 12, logistic_scale |-> 6]

\* another positive setting of the global: {20.0, 50.0, 1.8, 0.12, 1.0}
LargeParams ==
  [transition_weight |-> 2000, transversion_weight |-> 5000,
   cpg_multiplier |-> 18, cluster_factor |-> 12, logistic_scale |-> 10]

ParamSets == {DefaultParams, LargeParams}

\* positive settings of cpg_multiplier that do not raise a score: 1.0, 0.5
UnitCpgParams == [DefaultParams EXCEPT !.cpg_multiplier = 10]
LowCpgParams == [DefaultParams EXCEPT !.cpg_multiplier = 5]

CpgParamSets == ParamSets \cup {UnitCpgParams, LowCpgParams}

(* ---------------------------- the scorer ------------------------------ *)

\* C arrays are indexed from 0, sequences from 1
At(buf, i) == buf[i + 1]

Min(a, b) == IF a < b THEN a ELSE b

\* the double 1.0: every x with exp(-x) <= 2^-DBL_MANT_DIG, that is
\* x >= DBL_MANT_DIG * ln 2 (ln 2 = 0.6931472, x in millionths)
ScoreOne == (DBL_MANT_DIG * 6931472) \div 10
\* the double 0.0: exp(-x) overflows to +inf, x <= -DBL_MAX_EXP * ln 2
ScoreZero == 0 - (DBL_MAX_EXP * 693148)

\* the same transform in single precision (24 significand bits)
logistic_float(x) ==
  IF x >= (24 * 6931472) \div 10 THEN ScoreOne
  ELSE IF x <= ScoreZero THEN ScoreZero
  ELSE x

\* 1.0 / (1.0 + exp(-x)) in double arithmetic
logistic(x) ==
  IF x >= ScoreOne THEN ScoreOne
  ELSE IF x <= ScoreZero THEN ScoreZero
  ELSE x

\* a transitions table with a wrong last pair
transitions_swapped == << <<"A", "G">>, <<"G", "A">>, <<"C", "T">>, <<"T", "A">> >>

\* const char *transitions[] = {"AG", "GA", "CT", "TC", NULL}
transitions == << <<"A", "G">>, <<"G", "A">>, <<"C", "T">>, <<"T", "C">> >>

\* in hundredths
_calculate_substitution_score(ref, alt, p) ==
  IF \E t \in 1..Len(transitions) :
        ref = transitions[t][1] /\ alt = transitions[t][2]
  THEN p.transition_weight
  ELSE p.transversion_weight

\* a test that looks at whichever neighbours the chunk holds
_is_cpg_site_at_edges(ref_buf, pos, chunk_len) ==
  \/ (pos < chunk_len - 1 /\ At(ref_buf, pos) = "C" /\ At(ref_buf, pos + 1) = "G")
  \/ (pos > 0 /\ At(ref_buf, pos) = "G" /\ At(ref_buf, pos - 1) = "C")

_is_cpg_site(ref_buf, pos, chunk_len) ==
  IF pos > 0 /\ pos < chunk_len - 1
  THEN \/ (At(ref_buf, pos) = "C" /\ At(ref_buf, pos + 1) = "G")
       \/ (At(ref_buf, pos) = "G" /\ At(ref_buf, pos - 1) = "C")
  ELSE FALSE

\* a count of the neighbours only, the position itself left out
_count_context_variants_others(ref_buf, sample_buf, pos, chunk_len) ==
  LET start == IF pos > radius THEN pos - radius ELSE 0
      end   == IF pos + radius < chunk_len THEN pos + radius ELSE chunk_len - 1
  IN  Cardinality({i \in start..end :
                     i # pos /\ At(ref_buf, i) # At(sample_buf, i)})

_count_context_variants(ref_buf, sample_buf, pos, chunk_len) ==
  LET start == IF pos > radius THEN pos - radius ELSE 0
      end   == IF pos + radius < chunk_len THEN pos + radius ELSE chunk_len - 1
  IN  Cardinality({i \in start..end : At(ref_buf, i) # At(sample_buf, i)})

\* an empty IndividualVariants (init_individual_variants)
init_individual_variants == [entries |-> << >>, capacity |-> 0]

\* free_individual_variants leaves the same empty struct
free_individual_variants(iv) == [entries |-> << >>, capacity |-> 0]

\* num_entries is Len(entries); allocation failure (exit) is not modelled
add_variant(iv, col, score) ==
  LET cap == IF Len(iv.entries) = iv.capacity
             THEN (IF iv.capacity = 0 THEN InitialCapacity ELSE iv.capacity * 2)
             ELSE iv.capacity
  IN  [entries  |-> Append(iv.entries, [col |-> col, score |-> score]),
       capacity |-> cap]

\* the product with the CpG multiplier left out
ScaledScore_no_cpg(base, cpg, ctx_vars, p) ==
  p.logistic_scale * base * 10 * (100 + p.cluster_factor * ctx_vars)

\* score * logistic_scale in millionths: the base score, the CpG multiplier
\* (tenths; 10 is 1.0), the cluster term 1.0 + cluster_factor * ctx_vars
\* (hundredths; 100 is 1.0), the logistic scale (tenths)
ScaledScore(base, cpg, ctx_vars, p) ==
  p.logistic_scale * base * (IF cpg THEN p.cpg_multiplier ELSE 10)
                   * (100 + p.cluster_factor * ctx_vars)

\* the body of the loop of call_variants_chunk at index i
ScoreAt(ref_buf, sample_buf, i, chunk_len, p) ==
  logistic(ScaledScore(
    _calculate_substitution_score(At(ref_buf, i), At(sample_buf, i), p),
    _is_cpg_site(ref_buf, i, chunk_len),
    _count_context_variants(ref_buf, sample_buf, i, chunk_len), p))

\* the loop without the test of the sample's base
RECURSIVE CallLoopNoAltCheck(_, _, _, _, _, _, _)
CallLoopNoAltCheck(ref_buf, sample_buf, chunk_len, offset, iv, p, i) ==
  IF i >= chunk_len THEN iv
  ELSE IF At(ref_buf, i) = At(sample_buf, i)
       THEN CallLoopNoAltCheck(ref_buf, sample_buf, chunk_len, offset, iv, p, i + 1)
  ELSE IF At(ref_buf, i) \notin Bases
       THEN CallLoopNoAltCheck(ref_buf, sample_buf, chunk_len, offset, iv, p, i + 1)
  ELSE LET s == ScoreAt(ref_buf, sample_buf, i, chunk_len, p)
       IN  CallLoopNoAltCheck(ref_buf, sample_buf, chunk_len, offset,
                              IF s > ScoreZero THEN add_variant(iv, offset + i, s) ELSE iv,
                              p, i + 1)

\* for (i = 0; i < chunk_len; i++) of call_variants_chunk, from index i
RECURSIVE CallLoop(_, _, _, _, _, _, _)
CallLoop(ref_buf, sample_buf, chunk_len, offset, iv, p, i) ==
  IF i >= chunk_len THEN iv
  ELSE IF At(ref_buf, i) = At(sample_buf, i)
       THEN CallLoop(ref_buf, sample_buf, chunk_len, offset, iv, p, i + 1)
  ELSE IF At(ref_buf, i) \notin Bases
       THEN CallLoop(ref_buf, sample_buf, chunk_len, offset, iv, p, i + 1)
  ELSE IF At(sample_buf, i) \notin Bases
       THEN CallLoop(ref_buf, sample_buf, chunk_len, offset, iv, p, i + 1)
  ELSE LET s == ScoreAt(ref_buf, sample_buf, i, chunk_len, p)
       IN  CallLoop(ref_buf, sample_buf, chunk_len, offset,
                    IF s > ScoreZero THEN add_variant(iv, offset + i, s) ELSE iv,
                    p, i + 1)

\* one pass of the loop body of call_variants_chunk, at index i
CallBody(ref_buf, sample_buf, chunk_len, offset, iv, p, i) ==
  IF At(ref_buf, i) = At(sample_buf, i) THEN iv
  ELSE IF At(ref_buf, i) \notin Bases \/ At(sample_buf, i) \notin Bases THEN iv
  ELSE LET s == ScoreAt(ref_buf, sample_buf, i, chunk_len, p)
       IN  IF s > ScoreZero THEN add_variant(iv, offset + i, s) ELSE iv

\* call_variants_chunk without the test of the sample's base
call_variants_chunk_no_alt_check(ref_buf, sample_buf, chunk_len, offset, iv, p) ==
  CallLoopNoAltCheck(ref_buf, sample_buf, chunk_len, offset, iv, p, 0)

\* call_variants_chunk storing the index in the chunk as the position
call_variants_chunk_no_offset(ref_buf, sample_buf, chunk_len, offset, iv, p) ==
  CallLoop(ref_buf, sample_buf, chunk_len, 0, iv, p, 0)

\* the four pointers are never NULL in the program, so the guard at its
\* head never returns
call_variants_chunk(ref_buf, sample_buf, chunk_len, offset, iv, p) ==
  CallLoop(ref_buf, sample_buf, chunk_len, offset, iv, p, 0)

(* ------------------------------ state --------------------------------- *)

VARIABLES
  pc,             \* where the program is
  params,         \* the global VariantParams params
  n_inds,         \* num_individuals
  ref_file,       \* the bytes of the reference file
  ref_pos,        \* read position of fref
  ref_feof,       \* end-of-file indicator of fref
  ind_feof,       \* end-of-file indicator of each f_ind[i]
  ref_ferror,     \* error indicator of fref
  ind_ferror,     \* error indicator of each f_ind[i]
  open_files,     \* the streams that are open: 0 is fref, i is f_ind[i]
  ref_chunk,      \* the reference chunk buffer
  ind_chunk,      \* each individual's chunk buffer
  nref,           \* bytes of the last reference read
  nind,           \* bytes of each individual's last read
  global_offset,  \* position of ref_chunk[0] in the genome
  all_ivars,      \* each individual's IndividualVariants
  freed,          \* the individuals whose sparse set was freed
  err,            \* what gather_variants_sparse returned (-1: not yet)
  total_len,      \* *total_len_out
  pca_calls,      \* calls of partial_pca_sparse so far
  pca_d,          \* the d the last call was given
  pca_iters,      \* power iterations run
  num_components, \* components stored in the result
  files_written,  \* result files written
  vec_v,          \* a vector of length d
  vec_y,          \* a vector of length n_inds
  out_y,          \* the output buffer of multiply_X_vec
  out_z,          \* the output buffer of multiply_Xt_vec
  pca_k,          \* the top_k partial_pca_sparse was given
  pc_vectors,     \* result.pc_vectors, one vector per stored component
  eigenvalues,    \* result.eigenvalues
  scores,         \* result.scores, one column per component
  raw_scores,     \* result.scores as step 3 built them, before the z-score
  ind_file,       \* the bytes of one individual's file
  run_size,       \* the chunk_size of each of two runs over the same files
  run_offset,     \* the global_offset of each of the two runs
  call_pos,       \* the loop index i of each individual's running call
  ivars_before    \* all_ivars as the chunk step found them

vars == <<pc, params, n_inds, ref_file, ref_pos, ref_feof, ind_feof,
          ref_ferror, ind_ferror, open_files, ref_chunk, ind_chunk, nref, nind,
          global_offset, all_ivars, freed, err, total_len, pca_calls, pca_d,
          pca_iters, num_components, files_written, vec_v, vec_y, out_y, out_z,
          pca_k, pc_vectors, eigenvalues, scores, raw_scores, ind_file, run_size,
          run_offset, call_pos, ivars_before>>

fileVars == <<ref_file, ref_pos, ref_feof, ind_feof, ref_ferror, ind_ferror,
              open_files>>
pcaVars  == <<pca_calls, pca_d, pca_iters, num_components, files_written>>
mulVars  == <<vec_v, vec_y, out_y, out_z>>
resVars  == <<pca_k, pc_vectors, eigenvalues, scores, raw_scores>>
runVars  == <<ind_file, run_size, run_offset>>
parVars  == <<call_pos, ivars_before>>

\* the parts of the state an operation under study does not use
NoFiles ==
  /\ ref_file = << >> /\ ref_pos = 0
  /\ ref_feof = FALSE /\ ind_feof = << >>
  /\ ref_ferror = FALSE /\ ind_ferror = << >>
  /\ open_files = {}
NoPca ==
  /\ pca_calls = 0 /\ pca_d = 0 /\ pca_iters = 0 /\ num_components = 0
  /\ files_written = FALSE
NoMul ==
  /\ vec_v = << >> /\ vec_y = << >> /\ out_y = << >> /\ out_z = << >>
NoRes ==
  /\ pca_k = 0 /\ pc_vectors = << >> /\ eigenvalues = << >>
  /\ scores = << >> /\ raw_scores = << >>
NoRuns ==
  /\ ind_file = << >> /\ run_size = << >> /\ run_offset = << >>
NoPar ==
  /\ call_pos = << >> /\ ivars_before = << >>

(* ---------------- call_variants_chunk on its own ---------------------- *)

\* the chunk pairs a call is tried on: a nucleotide reference against a
\* sample of bases and N, and short chunks of arbitrary bytes
ScorerChunks ==
  UNION {[1..L -> Bases] \X [1..L -> Bases \cup {"N"}] : L \in 0..MaxChunkLen}
  \cup UNION {[1..L -> Bytes] \X [1..L -> Bytes] : L \in 0..MaxRawLen}

ScorerInit ==
  /\ pc = "scorer_ready"
  /\ params \in ParamSets
  /\ n_inds = 1
  /\ \E rs \in ScorerChunks :
        /\ ref_chunk = rs[1]
        /\ ind_chunk = <<rs[2]>>
        /\ nref = Len(rs[1])
  /\ nind = <<nref>>
  /\ global_offset \in {0, MaxOffset}
  /\ all_ivars = <<init_individual_variants>>
  /\ freed = {}
  /\ err = -1
  /\ total_len = 0
  /\ NoFiles /\ NoPca /\ NoMul /\ NoRes /\ NoRuns /\ NoPar

\* call_variants_chunk(ref_chunk, ind_chunk[0], nref, global_offset,
\*                     &all_ivars[0], &params)
ScorerCall ==
  /\ pc = "scorer_ready"
  /\ all_ivars' = [all_ivars EXCEPT ![1] =
        call_variants_chunk(ref_chunk, ind_chunk[1], nref, global_offset,
                            all_ivars[1], params)]
  /\ pc' = "scorer_done"
  /\ UNCHANGED <<params, n_inds, ref_chunk, ind_chunk, nref, nind,
                 global_offset, freed, err, total_len>>
  /\ UNCHANGED <<fileVars, pcaVars, mulVars, resVars, runVars, parVars>>

ScorerNext == ScorerCall

ScorerSpec == ScorerInit /\ [][ScorerNext]_vars

\* the same call on nucleotide chunks, for every positive setting of the
\* CpG multiplier above
CpgInit ==
  /\ pc = "scorer_ready"
  /\ params \in CpgParamSets
  /\ n_inds = 1
  /\ \E L \in 0..MaxChunkLen :
        /\ ref_chunk \in [1..L -> Bases]
        /\ \E s \in [1..L -> Bases] : ind_chunk = <<s>>
        /\ nref = L
  /\ nind = <<nref>>
  /\ global_offset = 0
  /\ all_ivars = <<init_individual_variants>>
  /\ freed = {}
  /\ err = -1
  /\ total_len = 0
  /\ NoFiles /\ NoPca /\ NoMul /\ NoRes /\ NoRuns /\ NoPar

CpgSpec == CpgInit /\ [][ScorerNext]_vars

(* --------- the streaming loop under two values of chunk_size ---------- *)

\* the references of the two runs: bases that "T" always differs from
RunBases == {"A", "C", "G"}

\* run 1 reads chunks of chunk_size bytes, run 2 of any other size; both
\* read the same reference and the same individual file of that length,
\* which has "T" where it differs from the reference
ChunkingInit ==
  /\ pc = "chunking"
  /\ params = DefaultParams
  /\ n_inds = 1
  /\ \E L \in 1..MaxRefLen :
        /\ ref_file \in [1..L -> RunBases]
        /\ \E m \in SUBSET (1..L) :
             ind_file = [k \in 1..L |-> IF k \in m THEN "T" ELSE ref_file[k]]
  /\ \E s \in (1..MaxRefLen) \ {chunk_size} : run_size = <<chunk_size, s>>
  /\ run_offset = <<0, 0>>
  /\ all_ivars = <<init_individual_variants, init_individual_variants>>
  /\ ref_pos = 0 /\ ref_feof = FALSE /\ ind_feof = << >>
  /\ ref_ferror = FALSE /\ ind_ferror = << >> /\ open_files = {}
  /\ ref_chunk = << >> /\ ind_chunk = << >> /\ nref = 0 /\ nind = << >>
  /\ global_offset = 0
  /\ freed = {}
  /\ err = -1
  /\ total_len = 0
  /\ NoPca /\ NoMul /\ NoRes /\ NoPar

\* one pass of the loop of run r: the next run_size[r] bytes of both
\* files (fewer at the end), the call, the offset advanced.  Run 2
\* starts when run 1 has read the whole reference.
RunChunk(r) ==
  /\ pc = "chunking"
  /\ run_offset[r] < Len(ref_file)
  /\ r = 2 => run_offset[1] = Len(ref_file)
  /\ LET off == run_offset[r]
         got == Min(run_size[r], Len(ref_file) - off)
         rc  == SubSeq(ref_file, off + 1, off + got)
         ic  == SubSeq(ind_file, off + 1, off + got)
     IN  /\ all_ivars' = [all_ivars EXCEPT ![r] =
                            call_variants_chunk(rc, ic, got, off, @, params)]
         /\ run_offset' = [run_offset EXCEPT ![r] = off + got]
  /\ UNCHANGED <<pc, params, n_inds, ref_file, ind_file, run_size>>
  /\ UNCHANGED <<ref_pos, ref_feof, ind_feof, ref_ferror, ind_ferror, open_files,
                 ref_chunk, ind_chunk, nref, nind, global_offset, freed, err,
                 total_len>>
  /\ UNCHANGED <<pcaVars, mulVars, resVars, parVars>>

ChunkingNext == \E r \in 1..2 : RunChunk(r)

ChunkingSpec == ChunkingInit /\ [][ChunkingNext]_vars

(* ------ the calls of one chunk step run in parallel, then a join ------ *)

Individuals == 1..n_inds

\* a full chunk of C and G, and each individual's chunk with "T" where it
\* differs
ParRefChunks == [1..chunk_size -> {"C", "G"}]
ParSamples(rc) ==
  {[k \in 1..chunk_size |-> IF k \in m THEN "T" ELSE rc[k]] :
     m \in SUBSET (1..chunk_size)}

\* what an earlier chunk step left in a set: one entry at position 0
EarlierSet ==
  call_variants_chunk([k \in 1..chunk_size |-> "C"],
                      [k \in 1..chunk_size |-> IF k = 1 THEN "T" ELSE "C"],
                      chunk_size, 0, init_individual_variants, DefaultParams)

\* the chunks are read; the step is the first one, or the second one
\* with an entry of the first in every set
ParInit ==
  /\ pc = "par_calls"
  /\ params = DefaultParams
  /\ n_inds \in 1..MaxInds
  /\ ref_chunk \in ParRefChunks
  /\ ind_chunk \in [Individuals -> ParSamples(ref_chunk)]
  /\ nref = chunk_size
  /\ nind = [i \in Individuals |-> nref]
  /\ \E first \in BOOLEAN :
        /\ global_offset = IF first THEN 0 ELSE chunk_size
        /\ ivars_before = [i \in Individuals |->
                             IF first THEN init_individual_variants ELSE EarlierSet]
  /\ all_ivars = ivars_before
  /\ call_pos = [i \in Individuals |-> 0]
  /\ freed = {}
  /\ err = -1
  /\ total_len = 0
  /\ NoFiles /\ NoPca /\ NoMul /\ NoRes /\ NoRuns

\* every call of the step writing through one pointer, &ivars_out[0]
ParCallStepShared(i) ==
  /\ pc = "par_calls"
  /\ call_pos[i] < nref
  /\ all_ivars' = [all_ivars EXCEPT ![1] =
                     CallBody(ref_chunk, ind_chunk[i], nref, global_offset, @,
                              params, call_pos[i])]
  /\ call_pos' = [call_pos EXCEPT ![i] = @ + 1]
  /\ UNCHANGED <<pc, params, n_inds, ref_chunk, ind_chunk, nref, nind,
                 global_offset, freed, err, total_len, ivars_before>>
  /\ UNCHANGED <<fileVars, pcaVars, mulVars, resVars, runVars>>

\* the call for individual i runs one pass of its loop: it reads
\* ref_chunk, ind_chunk[i], nref, global_offset and params and appends to
\* ivars_out[i]
ParCallStep(i) ==
  /\ pc = "par_calls"
  /\ call_pos[i] < nref
  /\ all_ivars' = [all_ivars EXCEPT ![i] =
                     CallBody(ref_chunk, ind_chunk[i], nref, global_offset, @,
                              params, call_pos[i])]
  /\ call_pos' = [call_pos EXCEPT ![i] = @ + 1]
  /\ UNCHANGED <<pc, params, n_inds, ref_chunk, ind_chunk, nref, nind,
                 global_offset, freed, err, total_len, ivars_before>>
  /\ UNCHANGED <<fileVars, pcaVars, mulVars, resVars, runVars>>

\* the join: every call has returned; global_offset += nref
ParJoin ==
  /\ pc = "par_calls"
  /\ \A i \in Individuals : call_pos[i] = nref
  /\ global_offset' = global_offset + nref
  /\ pc' = "par_joined"
  /\ UNCHANGED <<params, n_inds, ref_chunk, ind_chunk, nref, nind, all_ivars,
                 freed, err, total_len, call_pos, ivars_before>>
  /\ UNCHANGED <<fileVars, pcaVars, mulVars, resVars, runVars>>

ParNext ==
  \/ \E i \in Individuals : ParCallStep(i)
  \/ ParJoin

ParSpec == ParInit /\ [][ParNext]_vars

(* ------------------------- the pipeline ------------------------------- *)

\* the reference files the pipeline is run on: L bases, or L - 1 bases and
\* a trailing newline
RefFiles ==
  UNION {[1..L -> {"A"}] : L \in 0..MaxRefLen}
  \cup {[k \in 1..L |-> IF k = L THEN "\n" ELSE "A"] : L \in 1..MaxRefLen}

\* get_file_length(filepath) of a file that can be opened: its size, minus
\* one when the last byte is a newline.  No function calls it.
get_file_length(file) ==
  IF Len(file) > 0 /\ file[Len(file)] = "\n" THEN Len(file) - 1 ELSE Len(file)

\* a buffer of secure_alloc(chunk_size): calloc gives NUL bytes
ZeroedChunk == [k \in 1..chunk_size |-> NUL]

\* fread into buf: the first Len(data) bytes are overwritten, the rest stay
Overwrite(buf, data) ==
  [k \in 1..Len(buf) |-> IF k <= Len(data) THEN data[k] ELSE buf[k]]

\* what an individual's file can hold where the reference holds ref_bytes:
\* the same bases, a substitution of the last one, or of all of them
IndData(ref_bytes) ==
  {ref_bytes,
   [k \in 1..Len(ref_bytes) |-> IF k = Len(ref_bytes) THEN "G" ELSE ref_bytes[k]],
   [k \in 1..Len(ref_bytes) |-> "G"]}

\* the outcomes of fread(ind_chunk[i], 1, nref, f_ind[i]): all the bytes
\* asked for; fewer because the file ends; none because the read failed
IndReads(i, ref_bytes) ==
  IF ind_feof[i]
  THEN {[kind |-> "eof", data |-> << >>]}
  ELSE {[kind |-> "full", data |-> d] : d \in IndData(ref_bytes)}
       \cup {[kind |-> "eof", data |-> SubSeq(ref_bytes, 1, k)] :
               k \in 0..(Len(ref_bytes) - 1)}
       \cup {[kind |-> "error", data |-> << >>]}

\* perform_full_analysis after its argument check and the
\* init_individual_variants loop
Init ==
  /\ pc = "gather_open"
  /\ params = DefaultParams
  /\ n_inds \in 1..MaxInds
  /\ ref_file \in RefFiles
  /\ ref_pos = 0
  /\ ref_feof = FALSE
  /\ ind_feof = [i \in Individuals |-> FALSE]
  /\ ref_ferror = FALSE
  /\ ind_ferror = [i \in Individuals |-> FALSE]
  /\ open_files = {}
  /\ ref_chunk = ZeroedChunk
  /\ ind_chunk = [i \in Individuals |-> ZeroedChunk]
  /\ nref = 0
  /\ nind = [i \in Individuals |-> 0]
  /\ global_offset = 0
  /\ all_ivars = [i \in Individuals |-> init_individual_variants]
  /\ freed = {}
  /\ err = -1
  /\ total_len = 0
  /\ NoPca /\ NoMul /\ NoRes /\ NoRuns /\ NoPar

\* gather_variants_sparse: fopen(ref_file) fails, return 1
OpenReferenceFails ==
  /\ pc = "gather_open"
  /\ err' = 1
  /\ pc' = "gather_failed"
  /\ UNCHANGED <<params, n_inds, ref_chunk, ind_chunk, nref, nind,
                 global_offset, all_ivars, freed, total_len>>
  /\ UNCHANGED <<fileVars, pcaVars, mulVars, resVars, runVars, parVars>>

\* gather_variants_sparse: fopen(individuals[i]) fails; the streams opened
\* before it are closed again, return 1
OpenIndividualFails ==
  /\ pc = "gather_open"
  /\ \E i \in Individuals :
        LET opened == {0} \cup 1..(i - 1)     \* fref and f_ind[j], j < i
        IN  open_files' = opened \ opened       \* fclose of each of them
  /\ err' = 1
  /\ pc' = "gather_failed"
  /\ UNCHANGED <<params, n_inds, ref_chunk, ind_chunk, nref, nind,
                 global_offset, all_ivars, freed, total_len>>
  /\ UNCHANGED <<ref_file, ref_pos, ref_feof, ind_feof, ref_ferror, ind_ferror>>
  /\ UNCHANGED <<pcaVars, mulVars, resVars, runVars, parVars>>

\* gather_variants_sparse: every fopen succeeds, the chunk buffers are
\* allocated, global_offset = 0
OpenAll ==
  /\ pc = "gather_open"
  /\ open_files' = {0} \cup Individuals
  /\ ref_chunk' = ZeroedChunk
  /\ ind_chunk' = [i \in Individuals |-> ZeroedChunk]
  /\ global_offset' = 0
  /\ pc' = "gather_loop"
  /\ UNCHANGED <<params, n_inds, nref, nind, all_ivars, freed, err, total_len>>
  /\ UNCHANGED <<ref_file, ref_pos, ref_feof, ind_feof, ref_ferror, ind_ferror>>
  /\ UNCHANGED <<pcaVars, mulVars, resVars, runVars, parVars>>

\* one pass of while (!feof(fref)): read a reference chunk, read the same
\* amount from every individual, call the variants, advance the offset.
\* A failed read returns a short count and sets the stream's error
\* indicator, which the loop never looks at.
ChunkStep ==
  /\ pc = "gather_loop"
  /\ UNCHANGED <<params, n_inds, ref_file, open_files, freed, err, total_len>>
  /\ UNCHANGED <<pcaVars, mulVars, resVars, runVars, parVars>>
  /\ IF ref_feof
     THEN /\ pc' = "gather_finish"
          /\ UNCHANGED <<ref_pos, ref_feof, ind_feof, ref_ferror, ind_ferror,
                         ref_chunk, ind_chunk, nref, nind, global_offset, all_ivars>>
     ELSE LET avail == Len(ref_file) - ref_pos IN
          \E ref_fails \in (IF avail > 0 THEN BOOLEAN ELSE {FALSE}) :
            LET got    == IF ref_fails THEN 0 ELSE Min(chunk_size, avail)
                data   == SubSeq(ref_file, ref_pos + 1, ref_pos + got)
                new_rc == Overwrite(ref_chunk, data)
            IN  /\ nref' = got
                /\ ref_chunk' = new_rc
                /\ ref_pos' = ref_pos + got
                /\ ref_ferror' = (ref_ferror \/ ref_fails)
                /\ ref_feof' = (~ref_fails /\ avail < chunk_size)
                /\ IF got = 0
                   THEN /\ pc' = "gather_finish"     \* if (nref == 0) break
                        /\ UNCHANGED <<ind_feof, ind_ferror, ind_chunk, nind,
                                       global_offset, all_ivars>>
                   ELSE \E rd \in [Individuals -> UNION {IndReads(i, data) : i \in Individuals}] :
                          /\ \A i \in Individuals : rd[i] \in IndReads(i, data)
                          /\ LET new_ic == [i \in Individuals |->
                                              Overwrite(ind_chunk[i], rd[i].data)]
                             IN  /\ ind_chunk' = new_ic
                                 /\ nind' = [i \in Individuals |-> Len(rd[i].data)]
                                 /\ ind_feof' = [i \in Individuals |->
                                                   ind_feof[i] \/ rd[i].kind = "eof"]
                                 /\ ind_ferror' = [i \in Individuals |->
                                                     ind_ferror[i] \/ rd[i].kind = "error"]
                                 /\ all_ivars' = [i \in Individuals |->
                                      call_variants_chunk(new_rc, new_ic[i], got,
                                                          global_offset, all_ivars[i], params)]
                          /\ global_offset' = global_offset + got
                          /\ pc' = IF got < chunk_size      \* near EOF
                                   THEN "gather_finish" ELSE "gather_loop"

\* the end of gather_variants_sparse without the store to *total_len_out
GatherFinishNoLen ==
  /\ pc = "gather_finish"
  /\ open_files' = {}
  /\ err' = 0
  /\ pc' = "gathered"
  /\ UNCHANGED <<params, n_inds, ref_chunk, ind_chunk, nref, nind,
                 global_offset, all_ivars, freed, total_len>>
  /\ UNCHANGED <<ref_file, ref_pos, ref_feof, ind_feof, ref_ferror, ind_ferror>>
  /\ UNCHANGED <<pcaVars, mulVars, resVars, runVars, parVars>>

\* gather_variants_sparse after the loop: *total_len_out = global_offset,
\* every stream is closed, return 0
GatherFinish ==
  /\ pc = "gather_finish"
  /\ total_len' = global_offset
  /\ open_files' = {}
  /\ err' = 0
  /\ pc' = "gathered"
  /\ UNCHANGED <<params, n_inds, ref_chunk, ind_chunk, nref, nind,
                 global_offset, all_ivars, freed>>
  /\ UNCHANGED <<ref_file, ref_pos, ref_feof, ind_feof, ref_ferror, ind_ferror>>
  /\ UNCHANGED <<pcaVars, mulVars, resVars, runVars, parVars>>

\* the error return that forgets the sparse sets
ErrorReturnNoFree ==
  /\ pc = "gather_failed"
  /\ pc' = "returned"
  /\ UNCHANGED <<params, n_inds, ref_chunk, ind_chunk, nref, nind,
                 global_offset, all_ivars, freed, err, total_len>>
  /\ UNCHANGED <<fileVars, pcaVars, mulVars, resVars, runVars, parVars>>

\* perform_full_analysis, if (err): free every sparse set and return
ErrorReturn ==
  /\ pc = "gather_failed"
  /\ all_ivars' = [i \in Individuals |-> free_individual_variants(all_ivars[i])]
  /\ freed' = Individuals
  /\ pc' = "returned"
  /\ UNCHANGED <<params, n_inds, ref_chunk, ind_chunk, nref, nind,
                 global_offset, err, total_len>>
  /\ UNCHANGED <<fileVars, pcaVars, mulVars, resVars, runVars, parVars>>

\* secure_alloc(0) ends the process: one of the six allocations of
\* partial_pca_sparse(ivars, n, d, k) has size 0
PcaAllocExits(n, d, k) == k = 0 \/ d = 0 \/ n = 0

\* partial_pca_sparse(all_ivars, num_individuals, total_len, top_k): the
\* allocations, then for each of the top_k components MAX_ITERS power
\* iterations, the eigenvalue, and at the end the scores.  There is no
\* test of top_k against d.
PartialPcaSparse ==
  /\ pc = "gathered"
  /\ pca_calls' = pca_calls + 1
  /\ pca_d' = total_len
  /\ IF PcaAllocExits(n_inds, total_len, top_k)
     THEN /\ pc' = "exited"
          /\ UNCHANGED <<pca_iters, num_components>>
     ELSE /\ pca_iters' = top_k * MAX_ITERS
          /\ num_components' = top_k
          /\ pc' = "pca_done"
  /\ UNCHANGED files_written
  /\ UNCHANGED <<params, n_inds, ref_chunk, ind_chunk, nref, nind,
                 global_offset, all_ivars, freed, err, total_len>>
  /\ UNCHANGED <<fileVars, mulVars, resVars, runVars, parVars>>

\* perform_full_analysis after the PCA: the two result files are written
\* (unless they cannot be opened), the sparse sets are freed
WriteResults ==
  /\ pc = "pca_done"
  /\ files_written' \in BOOLEAN
  /\ all_ivars' = [i \in Individuals |-> free_individual_variants(all_ivars[i])]
  /\ freed' = Individuals
  /\ pc' = "returned"
  /\ UNCHANGED <<pca_calls, pca_d, pca_iters, num_components>>
  /\ UNCHANGED <<params, n_inds, ref_chunk, ind_chunk, nref, nind,
                 global_offset, err, total_len>>
  /\ UNCHANGED <<fileVars, mulVars, resVars, runVars, parVars>>

Next ==
  \/ OpenReferenceFails
  \/ OpenIndividualFails
  \/ OpenAll
  \/ ChunkStep
  \/ GatherFinish
  \/ ErrorReturn
  \/ PartialPcaSparse
  \/ WriteResults

Spec == Init /\ [][Next]_vars

\* the program is sequential and its reads return: it takes its next step
LiveSpec == Spec /\ WF_vars(Next)

(* ---------------------- the sparse products ------------------------- *)

\* sum of f[k] * g[k] over the indices of two vectors of one length
RECURSIVE DotUpTo(_, _, _)
DotUpTo(f, g, k) == IF k = 0 THEN 0 ELSE DotUpTo(f, g, k - 1) + f[k] * g[k]
dot(f, g) == DotUpTo(f, g, Len(f))

\* the inner loop of multiply_X_vec for one row: acc += sc * v[c]
RECURSIVE RowDot(_, _, _, _)
RowDot(entries, v, e, acc) ==
  IF e > Len(entries) THEN acc
  ELSE RowDot(entries, v, e + 1, acc + entries[e].score * At(v, entries[e].col))

\* multiply_X_vec without the loop that zeroes y
multiply_X_vec_no_zero(ivars, n, v, y) ==
  [i \in 1..n |-> RowDot(ivars[i].entries, v, 1, y[i])]

\* multiply_X_vec(ivars, n_inds, v, y): y is zeroed, then y[i] is the sum
\* of score * v[col] over the entries of row i
multiply_X_vec(ivars, n, v, y) ==
  LET y0 == [i \in 1..n |-> 0]
  IN  [i \in 1..n |-> RowDot(ivars[i].entries, v, 1, y0[i])]

\* the inner loop of multiply_Xt_vec for one row: z[c] += sc * y_i
RECURSIVE RowScatter(_, _, _, _)
RowScatter(entries, y_i, e, z) ==
  IF e > Len(entries) THEN z
  ELSE RowScatter(entries, y_i, e + 1,
                  [z EXCEPT ![entries[e].col + 1] = @ + entries[e].score * y_i])

\* the loop over the rows of multiply_Xt_vec, from row i
RECURSIVE ScatterRows(_, _, _, _, _)
ScatterRows(ivars, n, y, i, z) ==
  IF i > n THEN z
  ELSE ScatterRows(ivars, n, y, i + 1, RowScatter(ivars[i].entries, y[i], 1, z))

\* multiply_Xt_vec without the memset of z
multiply_Xt_vec_no_zero(ivars, n, d, y, z) ==
  ScatterRows(ivars, n, y, 1, z)

\* multiply_Xt_vec(ivars, n_inds, d, y, z): z is zeroed, then every entry
\* (col, score) of every row i adds score * y[i] to z[col]
multiply_Xt_vec(ivars, n, d, y, z) ==
  ScatterRows(ivars, n, y, 1, [c \in 1..d |-> 0])

\* a sparse row of width d: per column no entry or a score of 1 or 2,
\* the entries in ascending column order
RECURSIVE RowOf(_, _, _)
RowOf(f, d, c) ==
  IF c >= d THEN << >>
  ELSE (IF f[c] = 0 THEN << >> ELSE << [col |-> c, score |-> f[c]] >>)
       \o RowOf(f, d, c + 1)
SparseRows(d) ==
  {[entries |-> RowOf(f, d, 0), capacity |-> InitialCapacity] :
     f \in [0..(d - 1) -> 0..2]}

\* the vectors the products are tried on
TestVectors(len) ==
  {[k \in 1..len |-> k], [k \in 1..len |-> 2 - k]}
\* what an output buffer may hold before the call
StaleVectors(len) ==
  {[k \in 1..len |-> 0], [k \in 1..len |-> 7]}

MulInit ==
  /\ pc = "mul_ready"
  /\ params = DefaultParams
  /\ n_inds \in 1..MaxInds
  /\ pca_d = MulDim
  /\ all_ivars \in [Individuals -> SparseRows(MulDim)]
  /\ vec_v \in TestVectors(MulDim)
  /\ vec_y \in TestVectors(n_inds)
  /\ out_y \in StaleVectors(n_inds)
  /\ out_z \in StaleVectors(MulDim)
  /\ ref_chunk = << >> /\ ind_chunk = << >> /\ nref = 0 /\ nind = << >>
  /\ global_offset = 0 /\ freed = {} /\ err = -1 /\ total_len = MulDim
  /\ NoFiles
  /\ pca_calls = 0 /\ pca_iters = 0 /\ num_components = 0
  /\ files_written = FALSE
  /\ NoRes /\ NoRuns /\ NoPar

\* multiply_X_vec(ivars, n_inds, v, y)
MultiplyXVec ==
  /\ pc = "mul_ready"
  /\ out_y' = multiply_X_vec(all_ivars, n_inds, vec_v, out_y)
  /\ pc' = "mul_y"
  /\ UNCHANGED <<vec_v, vec_y, out_z>>
  /\ UNCHANGED <<params, n_inds, ref_chunk, ind_chunk, nref, nind,
                 global_offset, all_ivars, freed, err, total_len>>
  /\ UNCHANGED <<fileVars, pcaVars, resVars, runVars, parVars>>

\* multiply_Xt_vec(ivars, n_inds, d, y, z)
MultiplyXtVec ==
  /\ pc = "mul_y"
  /\ out_z' = multiply_Xt_vec(all_ivars, n_inds, pca_d, vec_y, out_z)
  /\ pc' = "mul_done"
  /\ UNCHANGED <<vec_v, vec_y, out_y>>
  /\ UNCHANGED <<params, n_inds, ref_chunk, ind_chunk, nref, nind,
                 global_offset, all_ivars, freed, err, total_len>>
  /\ UNCHANGED <<fileVars, pcaVars, resVars, runVars, parVars>>

MulNext == MultiplyXVec \/ MultiplyXtVec

MulSpec == MulInit /\ [][MulNext]_vars

(* ------------------------ partial_pca_sparse -------------------------- *)

(***************************************************************************)
(* Numbers.  The arithmetic of the PCA is exact: the rounding of the       *)
(* doubles is not modelled, except in the one place where it decides       *)
(* between two far apart results (the mean in z_score_pca_scores, below).  *)
(*                                                                         *)
(* A stored vector of doubles is a record [num, den2] standing for the     *)
(* vector num / sqrt(den2), num a sequence of integers.  Inside the power  *)
(* loop a vector is held as its integer sequence alone, up to a positive   *)
(* factor: the factor is divided out again by the normalisation, and the   *)
(* only other use of the length, the guard norm < 1e-15, separates the     *)
(* zero vector from the others (a nonzero vector of integers below 2^31    *)
(* over a denominator below 2^62 is longer than 1e-15).                    *)
(*                                                                         *)
(* A column of scores is a record [num, den2n, den2d] standing for the     *)
(* values num[i] / sqrt(den2n / den2d).  An eigenvalue is a record         *)
(* [num, den] standing for the double num / den: +inf when den = 0 and     *)
(* num > 0, NaN when both are 0.                                           *)
(***************************************************************************)

Abs(a) == IF a < 0 THEN 0 - a ELSE a

RECURSIVE GCD(_, _)
GCD(a, b) == IF b = 0 THEN a ELSE GCD(b, a % b)

RECURSIVE GcdUpTo(_, _)
GcdUpTo(f, k) == IF k = 0 THEN 0 ELSE GCD(GcdUpTo(f, k - 1), Abs(f[k]))

\* the integer vector of the same direction without a common factor
Primitive(f) ==
  LET g == GcdUpTo(f, Len(f))
  IN  IF g = 0 THEN f ELSE [k \in 1..Len(f) |-> f[k] \div g]

RECURSIVE SumUpTo(_, _)
SumUpTo(f, k) == IF k = 0 THEN 0 ELSE SumUpTo(f, k - 1) + f[k]

ZeroVector(len) == [k \in 1..len |-> 0]

\* remove_component with the projection added instead of subtracted
remove_component_added(vec, pc_vec, length) ==
  LET dt == dot(vec, pc_vec.num)
  IN  Primitive([i \in 1..length |-> pc_vec.den2 * vec[i] + dt * pc_vec.num[i]])

\* remove_component(vec, pc_vec, length): vec[i] -= dot * pc_vec[i] with
\* dot = sum of vec[i] * pc_vec[i]; the result is held times den2, common
\* factors taken out
remove_component(vec, pc_vec, length) ==
  LET dt == dot(vec, pc_vec.num)
  IN  Primitive([i \in 1..length |-> pc_vec.den2 * vec[i] - dt * pc_vec.num[i]])

\* for (prev = 0; prev < comp_i; prev++) remove_component(vec, pc prev, d)
RECURSIVE RemoveSubspace(_, _, _, _)
RemoveSubspace(vec, comps, prev, d) ==
  IF prev > Len(comps) THEN vec
  ELSE RemoveSubspace(remove_component(vec, comps[prev], d), comps, prev + 1, d)

\* a normalisation that divides by the squared norm
Normalize_by_square(z) ==
  IF dot(z, z) = 0 THEN [num |-> z, den2 |-> 1]
  ELSE LET w == Primitive(z) IN [num |-> w, den2 |-> dot(w, w) * dot(w, w)]

\* norm = sqrt(sum of z[c]^2); if (norm < 1e-15) norm = 1.0; v[c] = z[c] / norm
Normalize(z) ==
  IF dot(z, z) = 0 THEN [num |-> z, den2 |-> 1]
  ELSE LET w == Primitive(z) IN [num |-> w, den2 |-> dot(w, w)]

\* for (iter = 0; iter < MAX_ITERS; iter++): y = X v, z = X^T y, the
\* subspace removed, z normalised into the new v
RECURSIVE PowerLoop(_, _, _, _, _, _)
PowerLoop(ivars, n, d, comps, v, iter) ==
  IF iter >= PowerIters THEN v
  ELSE LET y == multiply_X_vec(ivars, n, v.num, ZeroVector(n))
           z == multiply_Xt_vec(ivars, n, d, y, ZeroVector(d))
       IN  PowerLoop(ivars, n, d, comps,
                     Normalize(RemoveSubspace(z, comps, 1, d)), iter + 1)

\* the vector stored as component comp_i = Len(comps), from the random v0
PowerComponent(ivars, n, d, comps, v0) ==
  PowerLoop(ivars, n, d, comps, Normalize(RemoveSubspace(v0, comps, 1, d)), 0)

\* result.eigenvalues[comp_i] = sum_sq / (double)(n_inds - 1), sum_sq the
\* sum of the squares of y = X v
Eigenvalue(ivars, n, v) ==
  LET y == multiply_X_vec(ivars, n, v.num, ZeroVector(n))
  IN  [num |-> dot(y, y), den |-> v.den2 * (n - 1)]

\* step 3: the column of scores of one component, y = X pcv
ScoreColumn(ivars, n, pcv) ==
  [num   |-> multiply_X_vec(ivars, n, pcv.num, ZeroVector(n)),
   den2n |-> pcv.den2, den2d |-> 1]

\* double mean = sum / (double)n_inds is exact for a column of equal
\* values when n_inds is 1, 2 or 4 or the values are 0; for other n_inds
\* the sum of n equal doubles divided by n can be one ulp off the value
MeanRoundings(col, n) ==
  IF /\ \A i \in 1..n : col.num[i] = col.num[1]
     /\ col.num[1] # 0
     /\ (n = 3 \/ n >= 5)
  THEN {-1, 0, 1}
  ELSE {0}

\* the body of the loop of z_score_pca_scores for one column; e is the
\* rounding error of the mean (in ulps), which counts only where the exact
\* centred values are all 0: they are then all -e ulps, the variance is
\* positive and the division by stddev gives -e * sqrt((n - 1) / n)
ZScoreColumn(col, n, e) ==
  LET sum    == SumUpTo(col.num, n)
      c      == [i \in 1..n |-> n * col.num[i] - sum]   \* centred, times n
      sum_sq == dot(c, c)
  IN  IF sum_sq = 0 /\ e # 0
      THEN [num |-> [i \in 1..n |-> 0 - e], den2n |-> n, den2d |-> n - 1]
      ELSE IF n > 1 /\ sum_sq > 0
      THEN LET w == Primitive(c)
           IN  [num |-> w, den2n |-> dot(w, w), den2d |-> n - 1]
      ELSE [num |-> c, den2n |-> n * n * col.den2n, den2d |-> col.den2d]

\* z_score_pca_scores(scores, n_inds, top_k), rnd[comp_i] the rounding
\* error of the mean of column comp_i
z_score_pca_scores(sc, n, k, rnd) ==
  [comp_i \in 1..k |-> ZScoreColumn(sc[comp_i], n, rnd[comp_i])]

\* the matrices partial_pca_sparse is run on: per column no entry or an
\* entry of score 1
PcaRows(d) ==
  {[entries |-> RowOf(f, d, 0), capacity |-> InitialCapacity] :
     f \in [0..(d - 1) -> 0..1]}

\* the entries of all the rows together
RECURSIVE NumEntries(_, _)
NumEntries(ivars, n) ==
  IF n = 0 THEN 0 ELSE NumEntries(ivars, n - 1) + Len(ivars[n].entries)

\* v[c] = (double)rand() / RAND_MAX - 0.5 is never 0 (RAND_MAX is odd)
RandVectors(d) == [1..d -> {-1, 1}]

PcaInit ==
  /\ pc = "pca_loop"
  /\ params = DefaultParams
  /\ n_inds \in 1..MaxInds
  /\ pca_d = MulDim
  /\ pca_k \in 1..MaxComps
  /\ all_ivars \in [Individuals -> PcaRows(MulDim)]
  /\ NumEntries(all_ivars, n_inds) <= MaxEntries
  /\ pc_vectors = << >> /\ eigenvalues = << >>
  /\ scores = << >> /\ raw_scores = << >>
  /\ ref_chunk = << >> /\ ind_chunk = << >> /\ nref = 0 /\ nind = << >>
  /\ global_offset = 0 /\ freed = {} /\ err = 0 /\ total_len = MulDim
  /\ pca_calls = 1 /\ pca_iters = 0 /\ num_components = 0
  /\ files_written = FALSE
  /\ NoFiles /\ NoMul /\ NoRuns /\ NoPar

\* one pass of for (comp_i = 0; comp_i < top_k; comp_i++): the random v,
\* the power loop, the stored component and its eigenvalue
PcaComponent ==
  /\ pc = "pca_loop"
  /\ num_components < pca_k
  /\ \E v0 \in RandVectors(pca_d) :
        LET v == PowerComponent(all_ivars, n_inds, pca_d, pc_vectors, v0)
        IN  /\ pc_vectors' = Append(pc_vectors, v)
            /\ eigenvalues' = Append(eigenvalues, Eigenvalue(all_ivars, n_inds, v))
  /\ num_components' = num_components + 1
  /\ pca_iters' = pca_iters + PowerIters
  /\ UNCHANGED <<pc, pca_k, scores, raw_scores, pca_calls, pca_d, files_written>>
  /\ UNCHANGED <<params, n_inds, ref_chunk, ind_chunk, nref, nind,
                 global_offset, all_ivars, freed, err, total_len>>
  /\ UNCHANGED <<fileVars, mulVars, runVars, parVars>>

\* steps 3 and 4: the scores are built, then z-scored in place
PcaScores ==
  /\ pc = "pca_loop"
  /\ num_components = pca_k
  /\ LET built == [comp_i \in 1..pca_k |->
                     ScoreColumn(all_ivars, n_inds, pc_vectors[comp_i])]
     IN  /\ raw_scores' = built
         /\ \E rnd \in [1..pca_k -> {-1, 0, 1}] :
               /\ \A comp_i \in 1..pca_k :
                     rnd[comp_i] \in MeanRoundings(built[comp_i], n_inds)
               /\ scores' = z_score_pca_scores(built, n_inds, pca_k, rnd)
  /\ pc' = "pca_returned"
  /\ UNCHANGED <<pca_k, pc_vectors, eigenvalues, pca_calls, pca_d, pca_iters,
                 num_components, files_written>>
  /\ UNCHANGED <<params, n_inds, ref_chunk, ind_chunk, nref, nind,
                 global_offset, all_ivars, freed, err, total_len>>
  /\ UNCHANGED <<fileVars, mulVars, runVars, parVars>>

PcaNext == PcaComponent \/ PcaScores

PcaSpec == PcaInit /\ [][PcaNext]_vars

(* ---------------- z_score_pca_scores on its own ----------------------- *)

\* the raw scores the columns are filled from
ZValues == {-1, 0, 2}
ZColumns(n) == {[num |-> f, den2n |-> 1, den2d |-> 1] : f \in [1..n -> ZValues]}

ZInit ==
  /\ pc = "z_ready"
  /\ params = DefaultParams
  /\ n_inds \in 1..MaxZInds
  /\ pca_k \in 1..MaxComps
  /\ raw_scores \in [1..pca_k -> ZColumns(n_inds)]
  /\ scores = raw_scores
  /\ pc_vectors = << >> /\ eigenvalues = << >>
  /\ all_ivars = [i \in Individuals |-> init_individual_variants]
  /\ ref_chunk = << >> /\ ind_chunk = << >> /\ nref = 0 /\ nind = << >>
  /\ global_offset = 0 /\ freed = {} /\ err = 0 /\ total_len = 0
  /\ NoFiles /\ NoPca /\ NoMul /\ NoRuns /\ NoPar

\* z_score_pca_scores(scores, n_inds, top_k), in place
ZScore ==
  /\ pc = "z_ready"
  /\ \E rnd \in [1..pca_k -> {-1, 0, 1}] :
        /\ \A comp_i \in 1..pca_k :
              rnd[comp_i] \in MeanRoundings(scores[comp_i], n_inds)
        /\ scores' = z_score_pca_scores(scores, n_inds, pca_k, rnd)
  /\ pc' = "z_done"
  /\ UNCHANGED <<pca_k, pc_vectors, eigenvalues, raw_scores>>
  /\ UNCHANGED <<params, n_inds, ref_chunk, ind_chunk, nref, nind,
                 global_offset, all_ivars, freed, err, total_len>>
  /\ UNCHANGED <<fileVars, pcaVars, mulVars, runVars, parVars>>

ZNext == ZScore

ZSpec == ZInit /\ [][ZNext]_vars

(* ======================= properties of the scorer ===================== *)

\* the scorer call under study: its inputs and what it appended
ScorerDone == pc = "scorer_done"
R(i) == At(ref_chunk, i)
S(i) == At(ind_chunk[1], i)
Emitted == all_ivars[1].entries
EmittedCols == {Emitted[k].col : k \in 1..Len(Emitted)}
ValidMismatch(i) == R(i) # S(i) /\ R(i) \in Bases /\ S(i) \in Bases
ValidMismatches == {i \in 0..(nref - 1) : ValidMismatch(i)}
Mismatches == {i \in 0..(nref - 1) : R(i) # S(i)}
\* the entry appended for index i
EntryFor(i) == CHOOSE e \in {Emitted[k] : k \in 1..Len(Emitted)} :
                  e.col = global_offset + i

\* C1: call_variants_chunk appends an entry for index i exactly when
\* R[i] # S[i] and both bytes are among A, C, G, T, one entry per such
\* index, at position O + i; identical chunks and positions with a byte
\* outside the four letters give no entry.
C1_EntryIffValidMismatch ==
  ScorerDone =>
    /\ EmittedCols = {global_offset + i : i \in ValidMismatches}
    /\ Len(Emitted) = Cardinality(ValidMismatches)

\* C1 witness: a call at a positive offset that appended an entry and
\* skipped a mismatch whose sample byte is not a base.
C1_Witness ==
  /\ ScorerDone
  /\ global_offset > 0
  /\ Len(Emitted) >= 1
  /\ \E i \in Mismatches : S(i) \notin Bases

TransitionPairs == {<<"A", "G">>, <<"G", "A">>, <<"C", "T">>, <<"T", "C">>}
\* the base score the specification gives a valid mismatch
SpecBaseScore(i) ==
  IF <<R(i), S(i)>> \in TransitionPairs
  THEN params.transition_weight ELSE params.transversion_weight

\* C2: the score of every appended entry is the one obtained from the
\* base score transition_weight for the ordered pairs (A,G), (G,A), (C,T),
\* (T,C) and transversion_weight for the other eight pairs, with the
\* contextual multipliers of its position applied.
C2_BaseScoreByPair ==
  ScorerDone =>
    \A i \in ValidMismatches :
      EntryFor(i).score =
        logistic(ScaledScore(SpecBaseScore(i),
                             _is_cpg_site(ref_chunk, i, nref),
                             _count_context_variants(ref_chunk, ind_chunk[1], i, nref),
                             params))

\* C2 witness: one call that scored a transition and a transversion
\* differently under the default parameters.
C2_Witness ==
  /\ ScorerDone
  /\ params = DefaultParams
  /\ \E i, j \in ValidMismatches :
        /\ <<R(i), S(i)>> \in TransitionPairs
        /\ <<R(j), S(j)>> \notin TransitionPairs
        /\ EntryFor(i).score < EntryFor(j).score

\* a CpG dinucleotide of the reference at index i, wherever in the chunk
CpGPosition(i) ==
  \/ (R(i) = "C" /\ i + 1 < nref /\ R(i + 1) = "G")
  \/ (R(i) = "G" /\ i > 0 /\ R(i - 1) = "C")
\* the chunk's only mismatch is one transition at the non-CpG index i
IsolatedTransition(i) ==
  /\ Mismatches = {i}
  /\ <<R(i), S(i)>> \in TransitionPairs
  /\ ~CpGPosition(i)

\* C3 as stated: the isolated transition gets the score
\* logistic(logistic_scale * transition_weight), the cluster term being 1.
C3_Original ==
  ScorerDone =>
    \A i \in 0..(nref - 1) :
      IsolatedTransition(i) =>
        Emitted = << [col   |-> global_offset + i,
                      score |-> logistic(params.logistic_scale
                                         * params.transition_weight * 10 * 100)] >>

\* C3 amended: the isolated transition gives exactly one entry, at its
\* position, with score logistic(logistic_scale * transition_weight *
\* (1 + cluster_factor)): the window count includes the mismatch itself.
C3_IsolatedTransitionScore ==
  ScorerDone =>
    \A i \in 0..(nref - 1) :
      IsolatedTransition(i) =>
        Emitted = << [col   |-> global_offset + i,
                      score |-> logistic(params.logistic_scale
                                         * params.transition_weight * 10
                                         * (100 + params.cluster_factor))] >>

\* C3 witness: an isolated transition in the middle of a chunk scored
\* sigmoid(0.6 * 0.28 * 1.12) under the default parameters.
C3_Witness ==
  /\ ScorerDone
  /\ params = DefaultParams
  /\ nref = 3
  /\ IsolatedTransition(1)
  /\ Len(Emitted) = 1
  /\ Emitted[1].score = 188160

\* C10 as stated: every emitted score is strictly between 0 and 1.
C10_Original ==
  ScorerDone =>
    \A k \in 1..Len(Emitted) :
      ScoreZero < Emitted[k].score /\ Emitted[k].score < ScoreOne

\* logistic_scale * score at index i, in millionths
LogisticArg(i) ==
  ScaledScore(_calculate_substitution_score(R(i), S(i), params),
              _is_cpg_site(ref_chunk, i, nref),
              _count_context_variants(ref_chunk, ind_chunk[1], i, nref),
              params)

\* C10 amended: every emitted score is greater than 0 and at most 1; it
\* is below 1 whenever logistic_scale * score is below 53 ln 2, which
\* holds for the default parameters at every mismatch count.
C10_ScoreRange ==
  ScorerDone =>
    \A i \in ValidMismatches :
      /\ ScoreZero < EntryFor(i).score
      /\ EntryFor(i).score <= ScoreOne
      /\ (LogisticArg(i) < ScoreOne => EntryFor(i).score < ScoreOne)
      /\ (params = DefaultParams => EntryFor(i).score < ScoreOne)

\* C10 witness: one call that emitted the score 1.0 and a score below it.
C10_Witness ==
  /\ ScorerDone
  /\ \E i, j \in ValidMismatches :
        /\ EntryFor(i).score = ScoreOne
        /\ EntryFor(j).score < ScoreOne

\* i is detected as CpG, j is not, and both are the same substitution with
\* the same window mismatch count
CpgPair(i, j) ==
  /\ i \in ValidMismatches /\ j \in ValidMismatches
  /\ _is_cpg_site(ref_chunk, i, nref)
  /\ ~_is_cpg_site(ref_chunk, j, nref)
  /\ R(i) = R(j) /\ S(i) = S(j)
  /\ _count_context_variants(ref_chunk, ind_chunk[1], i, nref)
       = _count_context_variants(ref_chunk, ind_chunk[1], j, nref)

Gathering == pc \in {"gather_loop", "gather_finish"}
Entries(i) == all_ivars[i].entries
\* the entries individual i got from the chunk read last
LastChunkEntries(i) ==
  {Entries(i)[k] : k \in {j \in 1..Len(Entries(i)) :
                            Entries(i)[j].col >= global_offset - nref}}

\* C4: when an individual's read returned nind < nref bytes, the chunk
\* gives that individual no entry at a position >= global_offset + nind
\* (global_offset being the chunk's offset).
C4_ShortReadTruncates ==
  (Gathering /\ nref > 0) =>
    \A i \in Individuals :
      \A e \in LastChunkEntries(i) : e.col < (global_offset - nref) + nind[i]

\* C5: a request with top_k = 0 or top_k > d is rejected: no power
\* iteration is run and no component is computed.
C5_TopKRejected ==
  (pca_calls > 0 /\ (top_k = 0 \/ top_k > pca_d)) =>
    (pca_iters = 0 /\ num_components = 0)

\* C6: every individual's positions are strictly increasing and below the
\* running global offset; when partial_pca_sparse is called every col is
\* below d.
C6_PositionsSortedAndBounded ==
  (pc \in {"gather_loop", "gather_finish", "gathered", "pca_done", "exited"}) =>
    \A i \in Individuals :
      /\ \A k \in 1..(Len(Entries(i)) - 1) : Entries(i)[k].col < Entries(i)[k + 1].col
      /\ \A k \in 1..Len(Entries(i)) :
            /\ Entries(i)[k].col >= 0
            /\ Entries(i)[k].col < global_offset
            /\ (pca_calls > 0 => Entries(i)[k].col < pca_d)

\* C6 witness: partial_pca_sparse was called with an individual holding
\* entries from two different chunks.
C6_Witness ==
  /\ pc = "pca_done"
  /\ \E i \in Individuals :
        /\ Len(Entries(i)) >= 3
        /\ Entries(i)[1].col < chunk_size
        /\ Entries(i)[Len(Entries(i))].col >= chunk_size

\* C7: after a failed open, partial_pca_sparse is never called, no result
\* file is written, and every sparse set is freed by the time
\* perform_full_analysis returns.
C7_GatherFailureAborts ==
  (err = 1) =>
    /\ pc \in {"gather_failed", "returned"}
    /\ pca_calls = 0
    /\ ~files_written
    /\ (pc = "returned" => freed = Individuals)

\* C7 witness: perform_full_analysis returned after a failed open, with
\* the sets of two individuals freed.
C7_Witness ==
  /\ err = 1
  /\ pc = "returned"
  /\ n_inds = 2
  /\ freed = {1, 2}

ReadFailed == ref_ferror \/ \E i \in Individuals : ind_ferror[i]

\* C8: a failed read of the reference or of an individual makes
\* gather_variants_sparse report failure, and no PCA is run.
C8_ReadFailureIsFatal ==
  ReadFailed => (pca_calls = 0 /\ err # 0)

\* what holds once partial_pca_sparse was called: it was called once, the
\* loop has ended, d is the number of bytes read from the reference and
\* the final global offset, and the reference was read to its end unless
\* a read of it failed
PcaAfterLoop ==
  /\ pca_calls <= 1
  /\ (pca_calls = 1 =>
        /\ pc \in {"pca_done", "exited", "returned"}
        /\ err = 0
        /\ pca_d = total_len
        /\ pca_d = global_offset
        /\ pca_d = ref_pos
        /\ (~ref_ferror => ref_pos = Len(ref_file)))

\* C15: on a successful run partial_pca_sparse is called exactly once,
\* only after the streaming loop has ended, with d the sum of the byte
\* counts read from the reference, which is the final global offset; the
\* loop ends for every reference file: the call, which is made only after
\* it, follows every entry to the loop.
C15_PcaOnceAfterLoop ==
  /\ []PcaAfterLoop
  /\ ((pc = "gather_loop") ~> (pca_calls = 1))

\* C15 witness: partial_pca_sparse was called after two full chunks and
\* the read that found the end of the reference, no read having failed.
C15_Witness ==
  /\ pc = "pca_done"
  /\ pca_calls = 1
  /\ ~ReadFailed
  /\ Len(ref_file) = 2 * chunk_size
  /\ pca_d = 2 * chunk_size

\* C16: for a reference of N bases followed by one newline the dimension
\* given to the PCA is N, the effective length, not N + 1.
C16_TrailingNewlineExcluded ==
  (pca_calls > 0 /\ ~ref_ferror) => pca_d = get_file_length(ref_file)

(* ============ properties of the two runs over the same files ========== *)

\* the index in its chunk of genome position col in run r, and the length
\* of that chunk
ChunkIndex(r, col) == col % run_size[r]
ChunkLenAt(r, col) ==
  Min(run_size[r], Len(ref_file) - (col - ChunkIndex(r, col)))
AtChunkEdge(r, col) ==
  ChunkIndex(r, col) = 0 \/ ChunkIndex(r, col) = ChunkLenAt(r, col) - 1

\* the mismatches of the two files within radius of col and inside col's
\* chunk of run r
ChunkContext(r, col) ==
  LET first == col - ChunkIndex(r, col)
      last  == first + ChunkLenAt(r, col) - 1
  IN  Cardinality({c \in first..last :
                     /\ c >= col - radius /\ c <= col + radius
                     /\ ref_file[c + 1] # ind_file[c + 1]})

\* the score of a mismatch at col with the CpG multiplier not applied
PlainScore(r, col) ==
  logistic(ScaledScore(
    _calculate_substitution_score(ref_file[col + 1], ind_file[col + 1], params),
    FALSE, ChunkContext(r, col), params))

\* col is part of a CG dinucleotide of the reference genome
GenomeCpg(col) ==
  \/ /\ col + 2 <= Len(ref_file)
     /\ ref_file[col + 1] = "C" /\ ref_file[col + 2] = "G"
  \/ /\ col >= 1
     /\ ref_file[col + 1] = "G" /\ ref_file[col] = "C"

SingleMismatch ==
  Cardinality({k \in 1..Len(ref_file) : ref_file[k] # ind_file[k]}) = 1

RunEntries(r) == {all_ivars[r].entries[k] : k \in 1..Len(all_ivars[r].entries)}

\* the same genome position, a CpG site of the genome and the only
\* mismatch, emitted at a chunk edge by run r1 and inside a chunk by r2
EdgeAndInterior(r1, e1, r2, e2) ==
  /\ e1.col = e2.col
  /\ GenomeCpg(e1.col)
  /\ SingleMismatch
  /\ AtChunkEdge(r1, e1.col)
  /\ ~AtChunkEdge(r2, e2.col)

\* C17: an entry emitted at the first or the last index of its chunk has
\* the score without the cpg_multiplier, whatever the neighbouring chunk
\* holds; and a genome CpG position that one chunk size puts at a chunk
\* edge and the other inside a chunk gets the lower score at the edge.
C17_BoundaryBlindSpot ==
  pc = "chunking" =>
    /\ \A r \in 1..2 : \A e \in RunEntries(r) :
          AtChunkEdge(r, e.col) => e.score = PlainScore(r, e.col)
    /\ \A r1 \in 1..2, r2 \in 1..2 :
          \A e1 \in RunEntries(r1), e2 \in RunEntries(r2) :
             EdgeAndInterior(r1, e1, r2, e2) => e1.score < e2.score

\* C17 witness: both runs have read the whole genome and a CpG position
\* of the genome got different scores, being the last index of a chunk of
\* one run with the G that completes the dinucleotide in the next chunk.
C17_Witness ==
  /\ pc = "chunking"
  /\ run_offset = <<Len(ref_file), Len(ref_file)>>
  /\ \E r1 \in 1..2, r2 \in 1..2 :
        \E e1 \in RunEntries(r1), e2 \in RunEntries(r2) :
           /\ EdgeAndInterior(r1, e1, r2, e2)
           /\ ChunkIndex(r1, e1.col) = ChunkLenAt(r1, e1.col) - 1
           /\ e1.col + 2 <= Len(ref_file)
           /\ ref_file[e1.col + 1] = "C" /\ ref_file[e1.col + 2] = "G"
           /\ e1.score # e2.score

(* ============ properties of the parallel calls of one step ============ *)

\* the global offset the calls of the step were given
ParOffset == IF pc = "par_joined" THEN global_offset - nref ELSE global_offset

\* what the sequential loop of the step leaves in individual i's set
SequentialSet(i) ==
  call_variants_chunk(ref_chunk, ind_chunk[i], nref, ParOffset,
                      ivars_before[i], params)

\* the entries the step found in iv are still its first entries
KeepsEarlier(before, iv) ==
  /\ Len(iv.entries) >= Len(before.entries)
  /\ SubSeq(iv.entries, 1, Len(before.entries)) = before.entries

\* C18: in whatever order the passes of the per-individual calls of one
\* chunk step are interleaved, a set is untouched until its own call
\* starts, keeps its earlier entries, and holds what the sequential order
\* gives once its own call has returned: after the join every set equals
\* the sequential result, and the offset has advanced only then.
C18_CallsIndependent ==
  pc \in {"par_calls", "par_joined"} =>
    /\ \A i \in Individuals :
          /\ call_pos[i] = 0 => all_ivars[i] = ivars_before[i]
          /\ KeepsEarlier(ivars_before[i], all_ivars[i])
          /\ call_pos[i] = nref => all_ivars[i] = SequentialSet(i)
    /\ pc = "par_joined" => \A i \in Individuals : call_pos[i] = nref

\* C18 witness: two calls have run and joined, each appended to its own
\* set after the earlier entry, and the two sets differ.
C18_Witness ==
  /\ pc = "par_joined"
  /\ n_inds >= 2
  /\ \A i \in Individuals :
        /\ Len(ivars_before[i].entries) > 0
        /\ Len(all_ivars[i].entries) > Len(ivars_before[i].entries)
  /\ all_ivars[1] # all_ivars[2]

(* ================= properties of the sparse products ================== *)

\* C9: dot(multiply(X, v), y) = dot(v, multiplyTranspose(X, y)), whatever
\* the output buffers held before the calls.
C9_Adjoint ==
  (pc = "mul_done") => dot(out_y, vec_y) = dot(vec_v, out_z)

\* C9 witness: both products computed for a matrix of two rows, one of
\* them with two entries, with a nonzero result.
C9_Witness ==
  /\ pc = "mul_done"
  /\ n_inds = 2
  /\ \E i \in Individuals : Len(Entries(i)) = 2
  /\ dot(out_y, vec_y) # 0

(* ================= properties of partial_pca_sparse =================== *)

PcaReturned == pc = "pca_returned"
Stored == 1..Len(pc_vectors)
\* squared L2 norm 1: num . num = den2
UnitNorm(v) == dot(v.num, v.num) = v.den2
\* the vector the guard left undivided: in exact arithmetic the zero vector
NearZero(v) == dot(v.num, v.num) = 0
\* the rows of the matrix that hold an entry
NonEmptyRows == {i \in Individuals : Len(Entries(i)) > 0}

\* C12 as stated: every component vector returned has unit L2 norm, the
\* matrix without entries and the matrix of rank below top_k included.
C12_Original ==
  \A a \in Stored : UnitNorm(pc_vectors[a])

\* C12 amended: every stored component has unit L2 norm or is the vector
\* the guard norm < 1e-15 left undivided (the zero vector); every component
\* of a matrix with no entries is that zero vector, and no more components
\* than the matrix has non-empty rows, or columns, have unit norm.
C12_UnitOrNearZero ==
  /\ \A a \in Stored : UnitNorm(pc_vectors[a]) \/ NearZero(pc_vectors[a])
  /\ (NonEmptyRows = {} => \A a \in Stored : NearZero(pc_vectors[a]))
  /\ Cardinality({a \in Stored : UnitNorm(pc_vectors[a])})
       <= Min(Cardinality(NonEmptyRows), pca_d)

\* C12 witness: a run with top_k = 2 returned a unit-norm first component
\* that lies along no axis and a second component that is the zero vector.
C12_Witness ==
  /\ PcaReturned
  /\ pca_k = 2
  /\ UnitNorm(pc_vectors[1]) /\ pc_vectors[1].den2 > 1
  /\ NearZero(pc_vectors[2])

\* C13: with top_k >= 2 every two distinct stored components have dot
\* product zero.
C13_Orthogonal ==
  \A a, b \in Stored :
    a # b => dot(pc_vectors[a].num, pc_vectors[b].num) = 0

\* C13 witness: a run with top_k >= 2 returned two unit-norm components,
\* neither along an axis.
C13_Witness ==
  /\ PcaReturned
  /\ pca_k >= 2
  /\ UnitNorm(pc_vectors[1]) /\ pc_vectors[1].den2 > 1
  /\ UnitNorm(pc_vectors[2]) /\ pc_vectors[2].den2 > 1

ZScored == pc \in {"z_done", "pca_returned"}
ConstantColumn(col) == \A i \in 1..n_inds : col.num[i] = col.num[1]

\* C14: after z_score_pca_scores every column has mean 0 and sample
\* standard deviation 1 (n - 1 denominator); a column whose raw values are
\* all equal, or of a single individual, is only centred: its values are
\* all exactly 0.
C14_ZScoredColumns ==
  ZScored =>
    \A comp_i \in 1..pca_k :
      LET raw == raw_scores[comp_i]
          col == scores[comp_i]
      IN  IF n_inds = 1 \/ ConstantColumn(raw)
          THEN \A i \in 1..n_inds : col.num[i] = 0
          ELSE /\ SumUpTo(col.num, n_inds) = 0
               /\ dot(col.num, col.num) * col.den2d = col.den2n * (n_inds - 1)

\* C19: for every n_inds >= 1 the divisor n_inds - 1 of the eigenvalue
\* estimate is nonzero and every stored eigenvalue is a finite non-negative
\* number.
C19_EigenvalueFinite ==
  \A a \in 1..Len(eigenvalues) :
    eigenvalues[a].den # 0 /\ eigenvalues[a].num >= 0

=============================================================================
